---- MODULE Spec2Model ----
(***************************************************************************)
(* Verification model of tensorly/tenalg/svd.py.                           *)
(*                                                                         *)
(* Three specifications share the variables of this module:                *)
(*   SpecFlip  svd_flip applied (repeatedly) to a pair of small integer    *)
(*             matrices U (rows x ku) and V (kv x cols);                   *)
(*   SpecNN    make_svd_non_negative applied to a triplet (U, S, V) and    *)
(*             the original tensor; the entries of W are tracked by sign   *)
(*             (negative, zero, positive, NaN);                            *)
(*   SpecSvd   svd_funs and the four strategies, tracked at the level of   *)
(*             array shapes, warnings, raised errors and the sequence of   *)
(*             calls to the numerical primitives (svd, eigh, eigsh, qr,    *)
(*             random draws), which are external to the module.            *)
(* A matrix is a sequence of rows; a shape is a sequence of dimensions.    *)
(***************************************************************************)
EXTENDS Integers, Sequences, FiniteSets, TLC

VARIABLES
    pc,                 \* position of the modelled call
    U, V,               \* the factor matrices (SpecFlip, SpecNN)
    u_based_decision,   \* svd_flip's mode
    U0, V0,             \* the pair first handed to svd_flip
    prevU, prevV,       \* the pair handed to the latest svd_flip call
    nflips,             \* number of svd_flip calls made so far
    S, tensor, nntype,  \* make_svd_non_negative's other arguments
    W,                  \* make_svd_non_negative's result
    args,               \* svd_funs' arguments (SpecSvd)
    res,                \* shapes of the current U, S, V (SpecSvd)
    err,                \* the exception that ended the call, or NoError
    log                 \* warnings and primitive calls, in order

vars == <<pc, U, V, u_based_decision, U0, V0, prevU, prevV, nflips,
          S, tensor, nntype, W, args, res, err, log>>

----------------------------------------------------------------------------
(* Bounds of the model.                                                    *)

\* largest total number of entries of the pair U, V handed to svd_flip
MaxCells == 7
\* largest number of consecutive svd_flip calls
MaxFlips == 2
\* largest total number of entries of U, V and tensor handed to
\* make_svd_non_negative
MaxNNCells == 8
\* largest singular value handed to make_svd_non_negative
MaxSing == 2
\* largest extent of a tensor along one axis
MaxDim == 4
\* largest number of axes of a tensor
MaxNdim == 3
\* how far n_eigenvecs may exceed MaxDim
MaxExcess == 2
\* largest n_oversamples and n_iter passed explicitly
MaxOversamples == 2
MaxIter == 2

\* entries of the matrices handed to svd_flip and make_svd_non_negative
Vals == {-1, 0, 1}

----------------------------------------------------------------------------
(* Array helpers.                                                          *)

NRows(M) == Len(M)

NCols(M) == Len(M[1])

Abs(x) == IF x < 0 THEN -x ELSE x

\* tl.sign: the sign of zero is zero
Sign(x) == IF x > 0 THEN 1 ELSE IF x < 0 THEN -1 ELSE 0

Min2(a, b) == IF a < b THEN a ELSE b

Max2(a, b) == IF a > b THEN a ELSE b

\* all r x c matrices with entries in Vals
Matrices(r, c, vals) == [1..r -> [1..c -> vals]]

\* tl.argmax(tl.abs(U), axis=0)[j]: first row holding the largest magnitude
ArgMaxAbsCol(M, j) ==
    CHOOSE i \in 1..NRows(M) :
        /\ \A i2 \in 1..NRows(M) : Abs(M[i2][j]) <= Abs(M[i][j])
        /\ \A i2 \in 1..(i - 1) : Abs(M[i2][j]) < Abs(M[i][j])

\* tl.argmax(tl.abs(V), axis=1)[i]: first column holding the largest magnitude
ArgMaxAbsRow(M, i) ==
    CHOOSE j \in 1..NCols(M) :
        /\ \A j2 \in 1..NCols(M) : Abs(M[i][j2]) <= Abs(M[i][j])
        /\ \A j2 \in 1..(j - 1) : Abs(M[i][j2]) < Abs(M[i][j])

\* M[:, j]
Col(M, j) == [i \in 1..NRows(M) |-> M[i][j]]

\* M * signs: column j of M scaled by signs[j]
ScaleCols(M, signs) ==
    [i \in 1..NRows(M) |-> [j \in 1..NCols(M) |-> M[i][j] * signs[j]]]

\* M * signs[:, None]: row i of M scaled by signs[i]
ScaleRows(M, signs) ==
    [i \in 1..NRows(M) |-> [j \in 1..NCols(M) |-> M[i][j] * signs[i]]]

----------------------------------------------------------------------------
(* svd_flip                                                                *)

\* signs of the largest-magnitude entry of each column of U
ColSigns(M) == [j \in 1..NCols(M) |-> Sign(M[ArgMaxAbsCol(M, j)][j])]

\* signs of the largest-magnitude entry of each row of V
RowSigns(M) == [i \in 1..NRows(M) |-> Sign(M[i][ArgMaxAbsRow(M, i)])]

\* PadSigns padding with -1
PadSignsMinus(signs, n) ==
    LET padded == IF n > Len(signs)
                  THEN signs \o [k \in 1..(n - Len(signs)) |-> -1]
                  ELSE signs
    IN  SubSeq(padded, 1, n)

\* concatenate((signs, ones(n - len))) when n > len, then signs[:n]
PadSigns(signs, n) ==
    LET padded == IF n > Len(signs)
                  THEN signs \o [k \in 1..(n - Len(signs)) |-> 1]
                  ELSE signs
    IN  SubSeq(padded, 1, n)

\* svd_flip with the deciding matrix left unscaled
svd_flip_DeciderUnscaled(u, v, ubd) ==
    IF ubd
    THEN <<u, ScaleRows(v, PadSigns(ColSigns(u), NRows(v)))>>
    ELSE <<ScaleCols(u, PadSigns(RowSigns(v), NCols(u))), v>>

\* svd_flip(U, V, u_based_decision): the pair <<U', V'>>
svd_flip(u, v, ubd) ==
    IF ubd
    THEN LET signs == ColSigns(u)
         IN  <<ScaleCols(u, signs), ScaleRows(v, PadSigns(signs, NRows(v)))>>
    ELSE LET signs == RowSigns(v)
         IN  <<ScaleCols(u, PadSigns(signs, NCols(u))), ScaleRows(v, signs)>>

----------------------------------------------------------------------------
(* SpecFlip: svd_flip called on a pair, then again on its own result.      *)

Shapes(n) == {s \in (1..n) \X (1..n) : s[1] * s[2] <= n}

Idle == <<>>

\* an exception: its kind, the offending value and the valid choices that
\* its message reports
Exc(kind, got, choices) == [kind |-> kind, got |-> got, choices |-> choices]

NoError == Exc("NoError", "", {})

InitFlip ==
    /\ pc = "flip"
    /\ \E su \in Shapes(MaxCells - 1) :
          \E sv \in Shapes(MaxCells - su[1] * su[2]) :
             /\ U \in Matrices(su[1], su[2], Vals)
             /\ V \in Matrices(sv[1], sv[2], Vals)
    /\ u_based_decision \in BOOLEAN
    /\ U0 = U
    /\ V0 = V
    /\ prevU = U
    /\ prevV = V
    /\ nflips = 0
    /\ S = Idle
    /\ tensor = Idle
    /\ nntype = "nndsvd"
    /\ W = Idle
    /\ args = Idle
    /\ res = Idle
    /\ err = NoError
    /\ log = <<>>

SvdFlip ==
    /\ pc = "flip"
    /\ nflips < MaxFlips
    /\ LET r == svd_flip(U, V, u_based_decision)
       IN  /\ U' = r[1]
           /\ V' = r[2]
    /\ prevU' = U
    /\ prevV' = V
    /\ nflips' = nflips + 1
    /\ UNCHANGED <<pc, u_based_decision, U0, V0, S, tensor, nntype, W,
                   args, res, err, log>>

NextFlip == SvdFlip

SpecFlip == InitFlip /\ [][NextFlip]_vars

----------------------------------------------------------------------------
(* make_svd_non_negative.  The inputs are integer-valued; every entry of W *)
(* is tracked by its sign: "neg", "zero", "pos" or "nan".  With integer    *)
(* inputs of this size every non-zero finite entry of W exceeds machine    *)
(* epsilon in magnitude, so the comparisons against eps are decided by the *)
(* sign alone.                                                             *)

\* sum of the entries of a sequence of integers
RECURSIVE SumSeq(_)
SumSeq(q) == IF q = <<>> THEN 0 ELSE q[1] + SumSeq(Tail(q))

\* tl.norm(vec) ** 2
NormSq(vec) == SumSeq([i \in 1..Len(vec) |-> vec[i] * vec[i]])

\* tl.clip(vec, a_min=0.0)
ClipMin0(vec) == [i \in 1..Len(vec) |-> Max2(vec[i], 0)]

\* tl.abs(tl.clip(vec, a_max=0.0))
AbsClipMax0(vec) == [i \in 1..Len(vec) |-> Abs(Min2(vec[i], 0))]

SignName(s) == IF s > 0 THEN "pos" ELSE IF s < 0 THEN "neg" ELSE "zero"

\* sign of lbd * u[i] for a finite u[i] of sign su and lbd = sqrt(sq) >= 0
TimesSqrt(sq, su) == IF sq = 0 THEN "zero" ELSE SignName(su)

\* column 0 of W: sqrt(S[0]) * abs(U[:, 0])
LeadingColumn(u, s) == [i \in 1..NRows(u) |-> TimesSqrt(s[1], Abs(u[i][1]))]

\* column j >= 1 of W (1-based: j >= 2), lines 81-104
UpdateColumn(u, s, v, j) ==
    LET x == Col(u, j)
        y == v[j]
        x_p == ClipMin0(x)
        y_p == ClipMin0(y)
        x_n == AbsClipMax0(x)
        y_n == AbsClipMax0(y)
        \* squares of m_p and m_n: the comparison of the norms' products
        m_p2 == NormSq(x_p) * NormSq(y_p)
        m_n2 == NormSq(x_n) * NormSq(y_n)
    IN  IF m_p2 > m_n2
        THEN [i \in 1..Len(x) |-> TimesSqrt(s[j] * m_p2, x_p[i])]
        ELSE IF NormSq(x_n) = 0
             \* x_n / x_n_nrm is 0/0: the column is NaN whatever lbd is
             THEN [i \in 1..Len(x) |-> "nan"]
             ELSE [i \in 1..Len(x) |-> TimesSqrt(s[j] * m_n2, x_n[i])]

\* W before the fill, as a matrix of signs
NNDSVD(u, s, v) ==
    [i \in 1..NRows(u) |->
        [j \in 1..NCols(u) |->
            IF j = 1 THEN LeadingColumn(u, s)[i]
                     ELSE UpdateColumn(u, s, v, j)[i]]]

\* soft_thresholding(W, eps) = sign(W) * clip(abs(W) - eps, a_min=0):
\* an entry keeps its sign unless its magnitude is at most eps, which in
\* this model is the case of the zero entries only; NaN stays NaN
soft_thresholding(w) ==
    [i \in 1..NRows(w) |->
        [j \in 1..NCols(w) |->
            IF w[i][j] = "nan" THEN "nan"
            ELSE IF w[i][j] = "zero" THEN "zero"
            ELSE w[i][j]]]

\* sign of tl.mean(tensor)
MeanSign(t) ==
    SignName(SumSeq([i \in 1..NRows(t) |-> SumSeq(t[i])]))

\* tl.where(W < eps, ones * avg, W); NaN < eps is false
FillWithMean(w, avg) ==
    [i \in 1..NRows(w) |->
        [j \in 1..NCols(w) |->
            IF w[i][j] \in {"zero", "neg"} THEN avg ELSE w[i][j]]]

NNTYPES == {"nndsvd", "nndsvda"}

\* make_svd_non_negative: [err, W]
make_svd_non_negative(t, u, s, v, nnt) ==
    LET w == NNDSVD(u, s, v)
    IN  IF nnt = "nndsvd"
        THEN [err |-> NoError, W |-> soft_thresholding(w)]
        ELSE IF nnt = "nndsvda"
        THEN [err |-> NoError, W |-> FillWithMean(w, MeanSign(t))]
        ELSE [err |-> Exc("ValueError_nntype", nnt, NNTYPES), W |-> Idle]

----------------------------------------------------------------------------
(* SpecNN: make_svd_non_negative called on a triplet and its tensor.       *)

\* singular values: non-negative, non-increasing
Singulars(k) ==
    {s \in [1..k -> 0..MaxSing] : \A i \in 1..(k - 1) : s[i] >= s[i + 1]}

NNShapes ==
    {d \in (1..MaxNNCells) \X (1..MaxNNCells) \X (1..MaxNNCells) :
        d[1] * d[2] + d[2] * d[3] + d[1] * d[3] <= MaxNNCells}

InitNN ==
    /\ pc = "nn"
    /\ \E d \in NNShapes :
          /\ U \in Matrices(d[1], d[2], Vals)
          /\ V \in Matrices(d[2], d[3], Vals)
          /\ S \in Singulars(d[2])
          /\ tensor \in Matrices(d[1], d[3], Vals)
    /\ nntype \in NNTYPES \cup {"other"}
    /\ u_based_decision = TRUE
    /\ U0 = U
    /\ V0 = V
    /\ prevU = U
    /\ prevV = V
    /\ nflips = 0
    /\ W = Idle
    /\ args = Idle
    /\ res = Idle
    /\ err = NoError
    /\ log = <<>>

MakeSvdNonNegative ==
    /\ pc = "nn"
    /\ LET r == make_svd_non_negative(tensor, U, S, V, nntype)
       IN  /\ W' = r.W
           /\ err' = r.err
    /\ pc' = "done"
    /\ UNCHANGED <<U, V, u_based_decision, U0, V0, prevU, prevV, nflips,
                   S, tensor, nntype, args, res, log>>

NextNN == MakeSvdNonNegative

SpecNN == InitNN /\ [][NextNN]_vars

----------------------------------------------------------------------------
(* The four strategies and svd_funs, at the level of shapes.  A tensor is  *)
(* its shape; a strategy returns [err, log, U, S, V] where U and V are     *)
(* shapes <<rows, cols>>, S is a length, err names the exception raised    *)
(* and log lists, in order, the warnings emitted and the calls made to     *)
(* the numerical primitives, each with the shape it was handed.            *)

\* n_eigenvecs=None
None == -1

SVD_FUNS == {"partial_svd", "truncated_svd", "symeig_svd", "randomized_svd"}

\* default of randomized_svd's n_oversamples
DefaultOversamples == 5

\* default of randomized_svd's n_iter
DefaultIter == 2

Ev(op, shape) == [op |-> op, shape |-> shape]

Raised(e, lg) == [err |-> e, log |-> lg, U |-> Idle, S |-> Idle, V |-> Idle]

\* x[:k] on an axis of length n
Slice(n, k) == IF k = None THEN n ELSE Min2(n, k)

\* tl.svd(matrix, full_matrices): shapes of U, S, V for a d1 x d2 matrix
SvdShapes(d1, d2, full_matrices) ==
    [U |-> <<d1, IF full_matrices THEN d1 ELSE Min2(d1, d2)>>,
     S |-> Min2(d1, d2),
     V |-> <<IF full_matrices THEN d2 ELSE Min2(d1, d2), d2>>]

\* tl.svd followed by U[:, :k], S[:k], V[:k, :]
SvdThenSlice(d1, d2, full_matrices, k, lg) ==
    LET r == SvdShapes(d1, d2, full_matrices)
    IN  [err |-> NoError,
         log |-> Append(lg, Ev("svd", <<d1, d2>>)),
         U |-> <<r.U[1], Slice(r.U[2], k)>>,
         S |-> Slice(r.S, k),
         V |-> <<Slice(r.V[1], k), r.V[2]>>]

\* Q of a complete QR
QrQComplete(a) == <<a[1], a[1]>>

\* Q of the reduced tl.qr of a matrix of shape a
QrQ(a) == <<a[1], Min2(a[1], a[2])>>

\* shape of tl.dot(a, b); at every product of the module the inner
\* dimensions agree
Dot(a, b) == <<a[1], b[2]>>

\* tl.transpose
Transpose(a) == <<a[2], a[1]>>

\* the clamp of n_eigenvecs to max_dim of truncated_svd, symeig_svd and
\* randomized_svd: [k, log]
ClampToMaxDim(n_eigenvecs, max_dim, lg) ==
    LET k == IF n_eigenvecs = None THEN max_dim ELSE n_eigenvecs
    IN  IF k > max_dim
        THEN [k |-> max_dim, log |-> Append(lg, Ev("warn_clamp", <<k, max_dim>>))]
        ELSE [k |-> k, log |-> lg]

\* partial_svd after its check of the dimensions (lines 192-257)
PartialSvdBody(matrix, n_eigenvecs, is_numpy) ==
    LET lg0 == IF ~is_numpy THEN <<Ev("warn_convert", <<>>)>> ELSE <<>>
        dim_1 == matrix[1]
        dim_2 == matrix[2]
        min_dim == Min2(dim_1, dim_2)
    IN  IF n_eigenvecs = None \/ n_eigenvecs >= min_dim
        THEN SvdThenSlice(dim_1, dim_2,
                          n_eigenvecs = None \/ n_eigenvecs > min_dim,
                          n_eigenvecs, lg0)
        ELSE LET lg1 == Append(lg0, Ev("rng_uniform", <<min_dim>>))
             IN  IF dim_1 < dim_2
                 THEN \* eigsh of matrix matrix^H gives U; V by product and QR
                      LET Ue == <<dim_1, n_eigenvecs>>
                          Vd == Dot(Transpose(matrix), Ue)
                      IN  [err |-> NoError,
                           log |-> lg1 \o <<Ev("eigsh", <<dim_1, dim_1>>),
                                            Ev("qr", Vd)>>,
                           U |-> Ue,
                           S |-> n_eigenvecs,
                           V |-> Transpose(QrQ(Vd))]
                 ELSE \* eigsh of matrix^H matrix gives V; U by product and QR
                      LET Ve == <<dim_2, n_eigenvecs>>
                          Ud == Dot(matrix, Ve)
                      IN  [err |-> NoError,
                           log |-> lg1 \o <<Ev("eigsh", <<dim_2, dim_2>>),
                                            Ev("qr", Ud)>>,
                           U |-> QrQ(Ud),
                           S |-> n_eigenvecs,
                           V |-> Transpose(Ve)]

\* partial_svd emitting its conversion warning before the check of ndim
partial_svd_WarnFirst(matrix, n_eigenvecs, is_numpy) ==
    IF Len(matrix) # 2
    THEN Raised(Exc("ValueError_ndim", "", {}),
                IF ~is_numpy THEN <<Ev("warn_convert", <<>>)>> ELSE <<>>)
    ELSE PartialSvdBody(matrix, n_eigenvecs, is_numpy)

\* partial_svd(matrix, n_eigenvecs)
partial_svd(matrix, n_eigenvecs, is_numpy) ==
    IF Len(matrix) # 2 THEN Raised(Exc("ValueError_ndim", "", {}), <<>>)
    ELSE PartialSvdBody(matrix, n_eigenvecs, is_numpy)

\* truncated_svd(matrix, n_eigenvecs)
truncated_svd(matrix, n_eigenvecs) ==
    IF Len(matrix) # 2 THEN Raised(Exc("ValueError_ndim", "", {}), <<>>)
    ELSE
    LET dim_1 == matrix[1]
        dim_2 == matrix[2]
        min_dim == Min2(dim_1, dim_2)
        max_dim == Max2(dim_1, dim_2)
        c == ClampToMaxDim(n_eigenvecs, max_dim, <<>>)
    IN  SvdThenSlice(dim_1, dim_2, c.k > min_dim, c.k, c.log)

\* symeig_svd's test with the comparison reversed
GramOfRowsReversed(dim_1, dim_2) == dim_1 < dim_2

\* symeig_svd's test (line 349): eigendecompose matrix matrix^T rather
\* than matrix^T matrix
GramOfRows(dim_1, dim_2) == dim_1 > dim_2

\* symeig_svd(matrix, n_eigenvecs)
symeig_svd(matrix, n_eigenvecs) ==
    IF Len(matrix) # 2 THEN Raised(Exc("ValueError_ndim", "", {}), <<>>)
    ELSE
    LET dim_1 == matrix[1]
        dim_2 == matrix[2]
        max_dim == Max2(dim_1, dim_2)
        c == ClampToMaxDim(n_eigenvecs, max_dim, <<>>)
        of_rows == GramOfRows(dim_1, dim_2)
        gram == IF of_rows THEN Dot(matrix, Transpose(matrix))
                           ELSE Dot(Transpose(matrix), matrix)
        \* tl.eigh(gram): gram[1] eigenvalues, eigenvectors of shape gram
        Se == gram[1]
        Ue == IF of_rows THEN gram ELSE Dot(matrix, gram)
        Ve == IF of_rows THEN Dot(Transpose(matrix), gram) ELSE gram
        \* tl.flip(tl.transpose(V), axis=0)
        Vt == Transpose(Ve)
    IN  [err |-> NoError,
         log |-> Append(c.log, Ev("eigh", gram)),
         U |-> <<Ue[1], Slice(Ue[2], Min2(dim_1, c.k))>>,
         S |-> Slice(Se, Min2(Min2(dim_1, dim_2), c.k)),
         V |-> <<Slice(Vt[1], Min2(dim_2, c.k)), Vt[2]>>]

\* the power iterations of randomized_range_finder: Q after n more rounds
RECURSIVE PowerIterations(_, _, _)
PowerIterations(A, Q, n) ==
    IF n = 0 THEN [Q |-> Q, log |-> <<>>]
    ELSE LET Y1 == Dot(Transpose(A), Q)
             Q1 == QrQ(Y1)
             Y2 == Dot(A, Q1)
             Q2 == QrQ(Y2)
             rest == PowerIterations(A, Q2, n - 1)
         IN  [Q |-> rest.Q,
              log |-> <<Ev("qr", Y1), Ev("qr", Y2)>> \o rest.log]

\* randomized_range_finder(A, n_dims, n_iter): [Q, log]
randomized_range_finder(A, n_dims, n_iter) ==
    LET dim_2 == A[2]
        Omega == <<dim_2, n_dims>>
        Y0 == Dot(A, Omega)
        it == PowerIterations(A, QrQ(Y0), n_iter)
    IN  [Q |-> it.Q,
         log |-> <<Ev("rng_normal", Omega), Ev("qr", Y0)>> \o it.log]

\* randomized_svd's choice of the transposed path (lines 432-437)
UseTransposed(dim_1, dim_2, n_eigenvecs, n_dims) ==
    LET min_dim == Min2(dim_1, dim_2)
    IN  \/ dim_1 > dim_2 /\ n_eigenvecs > Min2(min_dim, n_dims)
        \/ dim_1 < dim_2 /\ n_eigenvecs < Min2(min_dim, n_dims)

\* the matrix_reduced of either path: [reduced, Q, log]
Reduce(matrix, n_dims, n_iter, transposed) ==
    IF transposed
    THEN LET matrix_T == Transpose(matrix)
             f == randomized_range_finder(matrix_T, n_dims, n_iter)
         IN  [reduced |-> Transpose(Dot(Transpose(f.Q), matrix_T)),
              Q |-> f.Q,
              log |-> <<Ev("transpose_input", matrix)>> \o f.log]
    ELSE LET f == randomized_range_finder(matrix, n_dims, n_iter)
         IN  [reduced |-> Dot(Transpose(f.Q), matrix),
              Q |-> f.Q,
              log |-> f.log]

\* randomized_svd(matrix, n_eigenvecs, n_oversamples, n_iter)
randomized_svd(matrix, n_eigenvecs, n_oversamples, n_iter) ==
    IF Len(matrix) # 2 THEN Raised(Exc("ValueError_ndim", "", {}), <<>>)
    ELSE
    LET dim_1 == matrix[1]
        dim_2 == matrix[2]
        max_dim == Max2(dim_1, dim_2)
        c == ClampToMaxDim(n_eigenvecs, max_dim, <<>>)
        n_dims == Min2(c.k + n_oversamples, max_dim)
        transposed == UseTransposed(dim_1, dim_2, c.k, n_dims)
        rd == Reduce(matrix, n_dims, n_iter, transposed)
        t == truncated_svd(rd.reduced, c.k)
    IN  [err |-> t.err,
         log |-> c.log \o rd.log \o t.log,
         U |-> IF transposed THEN t.U ELSE Dot(rd.Q, t.U),
         S |-> t.S,
         V |-> IF transposed THEN Dot(t.V, Transpose(rd.Q)) ELSE t.V]

\* NonNegativeOutcome with a final else that accepts any other nntype
NonNegativeOutcomeLax(u, s, v, nnt) ==
    IF u[2] < 1 \/ s < 1 \/ v[1] < 1 \/ u[2] > Min2(v[1], s)
    THEN Exc("IndexError", "", {})
    ELSE NoError

\* make_svd_non_negative on shapes: the loop reads V[j, :] and S[j] for
\* every column j of U, then nntype is examined
NonNegativeOutcome(u, s, v, nnt) ==
    IF u[2] < 1 \/ s < 1 \/ v[1] < 1 \/ u[2] > Min2(v[1], s)
    THEN Exc("IndexError", "", {})
    ELSE IF nnt \in NNTYPES THEN NoError
                            ELSE Exc("ValueError_nntype", nnt, NNTYPES)

\* the strategy svd_funs selects (lines 473-480)
Strategy(a) ==
    IF a.svd_type = "partial_svd"
    THEN partial_svd(a.tensor, a.n_eigenvecs, a.is_numpy)
    ELSE IF a.svd_type = "truncated_svd"
    THEN truncated_svd(a.tensor, a.n_eigenvecs)
    ELSE IF a.svd_type = "symeig_svd"
    THEN symeig_svd(a.tensor, a.n_eigenvecs)
    ELSE randomized_svd(a.tensor, a.n_eigenvecs, a.n_oversamples, a.n_iter)

\* svd_funs(tensor, ...): the exception it ends in and the shapes it returns
svd_funs(a) ==
    IF a.svd_type \notin SVD_FUNS
    THEN [err |-> Exc("ValueError_svd_type", a.svd_type, SVD_FUNS),
          U |-> Idle, S |-> Idle, V |-> Idle]
    ELSE LET r == Strategy(a)
             e == IF r.err # NoError THEN r.err
                  ELSE IF a.non_negative
                  THEN NonNegativeOutcome(r.U, r.S, r.V, a.nntype)
                  ELSE NoError
         IN  [err |-> e, U |-> r.U, S |-> r.S, V |-> r.V]

----------------------------------------------------------------------------
(* SpecSvd: one call of svd_funs, or of a strategy directly.               *)

Tensors == UNION {[1..n -> 1..MaxDim] : n \in 1..MaxNdim}

Ranks == {None} \cup (1..(MaxDim + MaxExcess))

\* the arguments of one call; options a strategy ignores keep their default
CallArgs ==
    {a \in [tensor : Tensors,
            is_numpy : BOOLEAN,
            direct : BOOLEAN,
            svd_type : SVD_FUNS \cup {"other_svd"},
            n_eigenvecs : Ranks,
            flip_svd : BOOLEAN,
            non_negative : BOOLEAN,
            nntype : NNTYPES \cup {"other"},
            n_oversamples : (0..MaxOversamples) \cup {DefaultOversamples},
            n_iter : (0..MaxIter) \cup {DefaultIter}] :
        /\ a.svd_type # "partial_svd" => a.is_numpy
        /\ a.svd_type # "randomized_svd" =>
              a.n_oversamples = DefaultOversamples /\ a.n_iter = DefaultIter
        /\ a.direct =>
              /\ a.svd_type \in SVD_FUNS
              /\ a.flip_svd /\ ~a.non_negative /\ a.nntype = "nndsvd"}

InitSvd ==
    /\ pc = "strategy"
    /\ args \in CallArgs
    /\ res = [U |-> Idle, S |-> Idle, V |-> Idle]
    /\ err = NoError
    /\ log = <<>>
    /\ U = Idle
    /\ V = Idle
    /\ u_based_decision = TRUE
    /\ U0 = Idle
    /\ V0 = Idle
    /\ prevU = Idle
    /\ prevV = Idle
    /\ nflips = 0
    /\ S = Idle
    /\ tensor = Idle
    /\ nntype = "nndsvd"
    /\ W = Idle

\* a strategy returned r: record it and move on
Finish(r) ==
    /\ res' = [U |-> r.U, S |-> r.S, V |-> r.V]
    /\ err' = r.err
    /\ log' = log \o r.log
    /\ pc' = IF r.err # NoError THEN "raised"
             ELSE IF args.direct THEN "returned" ELSE "flip_svd"
    /\ UNCHANGED <<U, V, u_based_decision, U0, V0, prevU, prevV, nflips,
                   S, tensor, nntype, W, args>>

PartialSvd ==
    /\ pc = "strategy"
    /\ args.svd_type = "partial_svd"
    /\ Finish(Strategy(args))

TruncatedSvd ==
    /\ pc = "strategy"
    /\ args.svd_type = "truncated_svd"
    /\ Finish(Strategy(args))

SymeigSvd ==
    /\ pc = "strategy"
    /\ args.svd_type = "symeig_svd"
    /\ Finish(Strategy(args))

RandomizedSvd ==
    /\ pc = "strategy"
    /\ args.svd_type = "randomized_svd"
    /\ Finish(Strategy(args))

\* svd_funs' else branch
UnknownSvdType ==
    /\ pc = "strategy"
    /\ args.svd_type \notin SVD_FUNS
    /\ err' = Exc("ValueError_svd_type", args.svd_type, SVD_FUNS)
    /\ pc' = "raised"
    /\ UNCHANGED <<U, V, u_based_decision, U0, V0, prevU, prevV, nflips,
                   S, tensor, nntype, W, args, res, log>>

\* if flip_svd: svd_flip keeps the shapes of U and V
FlipStep ==
    /\ pc = "flip_svd"
    /\ pc' = "non_negative"
    /\ log' = IF args.flip_svd THEN Append(log, Ev("svd_flip", res.U)) ELSE log
    /\ UNCHANGED <<U, V, u_based_decision, U0, V0, prevU, prevV, nflips,
                   S, tensor, nntype, W, args, res, err>>

\* if non_negative: U = make_svd_non_negative(...); return U, S, V
NonNegativeStep ==
    /\ pc = "non_negative"
    /\ LET e == IF args.non_negative
                THEN NonNegativeOutcome(res.U, res.S, res.V, args.nntype)
                ELSE NoError
       IN  /\ err' = e
           /\ pc' = IF e = NoError THEN "returned" ELSE "raised"
    /\ UNCHANGED <<U, V, u_based_decision, U0, V0, prevU, prevV, nflips,
                   S, tensor, nntype, W, args, res, log>>

NextSvd ==
    \/ PartialSvd
    \/ TruncatedSvd
    \/ SymeigSvd
    \/ RandomizedSvd
    \/ UnknownSvdType
    \/ FlipStep
    \/ NonNegativeStep

SpecSvd == InitSvd /\ [][NextSvd]_vars

----------------------------------------------------------------------------
(* Claims about svd_flip, checked under SpecFlip.                          *)

Scaled(vec, f) == [i \in 1..Len(vec) |-> f * vec[i]]

\* C5: after svd_flip every column j of U and every row j of V equals the
\* input's column/row times one common factor that is +1 or -1.
C5_SignFlipsOnly ==
    nflips >= 1 =>
        /\ NRows(U) = NRows(U0) /\ NCols(U) = NCols(U0)
        /\ NRows(V) = NRows(V0) /\ NCols(V) = NCols(V0)
        /\ \A j \in 1..Max2(NCols(U0), NRows(V0)) :
              \E f \in {-1, 1} :
                 /\ j <= NCols(U0) => Col(U, j) = Scaled(Col(U0, j), f)
                 /\ j <= NRows(V0) => V[j] = Scaled(V0[j], f)

\* C6: svd_flip is idempotent: a second call returns exactly the pair it
\* was handed, in both modes.
C6_FlipIdempotent ==
    nflips >= 2 => (U = prevU /\ V = prevV)

\* C6 witness: a second call has been made on a pair whose first call
\* flipped a sign.
C6_Witness ==
    /\ nflips = 2
    /\ U0 # U
    /\ V0 # V

\* the components of M (columns of U, rows of V) beyond n are those of M0
ExtraColsKept(M, M0, n) ==
    \A j \in (n + 1)..NCols(M0) : Col(M, j) = Col(M0, j)

ExtraRowsKept(M, M0, n) ==
    \A j \in (n + 1)..NRows(M0) : M[j] = M0[j]

\* C10 as stated: whichever matrix is the larger one, its components
\* beyond min(cols(U), rows(V)) are returned unchanged, in both modes.
C10_Original ==
    nflips = 1 =>
        /\ ExtraColsKept(U, U0, NRows(V0))
        /\ ExtraRowsKept(V, V0, NCols(U0))

\* C10 amended: the extra components of the matrix that does not drive the
\* decision (V in the U-based mode, U in the V-based mode) are returned
\* unchanged.
C10_ExtraOfFollowerKept ==
    nflips = 1 =>
        /\ u_based_decision => ExtraRowsKept(V, V0, NCols(U0))
        /\ ~u_based_decision => ExtraColsKept(U, U0, NRows(V0))

\* C10 witness: the follower matrix has extra, non-zero components while a
\* sign in the overlapping range was flipped.
C10_Witness ==
    /\ nflips = 1
    /\ u_based_decision
    /\ NRows(V0) > NCols(U0)
    /\ V0[NRows(V0)][1] = -1
    /\ U # U0

----------------------------------------------------------------------------
(* Claims about make_svd_non_negative, checked under SpecNN.               *)

\* C7: every entry of the W that make_svd_non_negative returns is >= 0,
\* for nndsvd and for nndsvda, whatever the tensor and the triplet.
C7_NonNegative ==
    (pc = "done" /\ err = NoError) =>
        \A i \in 1..NRows(W) : \A j \in 1..NCols(W) :
            W[i][j] \in {"zero", "pos"}

----------------------------------------------------------------------------
(* Claims about the strategies and svd_funs, checked under SpecSvd.        *)

\* the call is over
Ended == pc \in {"returned", "raised"}

\* the strategy has been run on a 2-D input
StrategyRan ==
    /\ pc # "strategy"
    /\ args.svd_type \in SVD_FUNS
    /\ Len(args.tensor) = 2

Logged(op) == \E i \in 1..Len(log) : log[i].op = op

Cells(shape) == shape[1] * shape[2]

\* C1: with 0 < k <= min(rows, cols) every strategy returns U of shape
\* rows x k, S of length k and V of shape k x cols, for every n_oversamples
\* and n_iter.
C1_Shapes ==
    (/\ StrategyRan
     /\ args.n_eigenvecs # None
     /\ args.n_eigenvecs <= Min2(args.tensor[1], args.tensor[2]))
    => /\ err.kind \notin {"ValueError_ndim", "IndexError"}
       /\ res.U = <<args.tensor[1], args.n_eigenvecs>>
       /\ res.S = args.n_eigenvecs
       /\ res.V = <<args.n_eigenvecs, args.tensor[2]>>

\* C1 witness: randomized_svd returned through its transposed path with
\* oversampling and power iterations, for a rank below min(rows, cols).
C1_Witness ==
    /\ pc = "returned"
    /\ args.svd_type = "randomized_svd"
    /\ args.n_eigenvecs = 2
    /\ args.tensor = <<3, 4>>
    /\ args.n_oversamples = 1
    /\ args.n_iter = 2
    /\ Logged("transpose_input")
    /\ res.V = <<2, 4>>

\* C2: through svd_funs, with n_eigenvecs > max(rows, cols), every strategy
\* and every combination of flip_svd and non_negative emits the clamp
\* warning, never raises, and ends as the call with n_eigenvecs =
\* max(rows, cols) ends.
C2_ClampWarnNeverRaise ==
    (/\ Ended
     /\ StrategyRan
     /\ ~args.direct
     /\ args.nntype \in NNTYPES
     /\ args.n_eigenvecs > Max2(args.tensor[1], args.tensor[2]))
    => /\ Logged("warn_clamp")
       /\ pc = "returned"
       /\ err = NoError
       /\ LET m == Max2(args.tensor[1], args.tensor[2])
              c == svd_funs([args EXCEPT !.n_eigenvecs = m])
          IN  c.err = err /\ c.U = res.U /\ c.S = res.S /\ c.V = res.V

\* C3: an input that is not 2-dimensional makes each strategy raise the
\* input-shape error first: no warning and no primitive call precedes it.
C3_NdimCheckedFirst ==
    (/\ pc # "strategy"
     /\ args.svd_type \in SVD_FUNS
     /\ Len(args.tensor) # 2)
    => /\ pc = "raised"
       /\ err.kind = "ValueError_ndim"
       /\ log = <<>>

\* C3 witness: partial_svd, reached through svd_funs with a 3-D tensor of
\* another backend, has raised.
C3_Witness ==
    /\ pc = "raised"
    /\ Len(args.tensor) = 3
    /\ args.svd_type = "partial_svd"
    /\ ~args.is_numpy
    /\ ~args.direct
    /\ err.kind = "ValueError_ndim"

\* C4 as stated: svd_funs (on a 2-D tensor) ends in a configuration error
\* that reports the invalid value and the valid choices whenever svd_type
\* or nntype is not a valid choice.
C4_Original ==
    (Ended /\ ~args.direct) =>
        /\ args.svd_type \notin SVD_FUNS =>
              pc = "raised"
              /\ err = Exc("ValueError_svd_type", args.svd_type, SVD_FUNS)
        /\ (StrategyRan /\ args.nntype \notin NNTYPES) =>
              pc = "raised"
              /\ err = Exc("ValueError_nntype", args.nntype, NNTYPES)

\* C4 amended: an invalid svd_type always ends svd_funs in the
\* configuration error reporting it and the valid choices; an invalid
\* nntype is examined only when non_negative is set: on a 2-D tensor the
\* call then never returns, and it ends in the configuration error
\* reporting nntype and the valid choices unless make_svd_non_negative's
\* loop fails first for want of a row of V or an entry of S; with
\* non_negative unset the invalid nntype is ignored and the call returns.
C4_ConfigErrors ==
    (Ended /\ ~args.direct) =>
        /\ args.svd_type \notin SVD_FUNS =>
              pc = "raised"
              /\ err = Exc("ValueError_svd_type", args.svd_type, SVD_FUNS)
        /\ (StrategyRan /\ args.nntype \notin NNTYPES /\ args.non_negative) =>
              /\ pc = "raised"
              /\ res.U[2] <= Min2(res.V[1], res.S) =>
                    err = Exc("ValueError_nntype", args.nntype, NNTYPES)
        /\ (StrategyRan /\ args.nntype \notin NNTYPES /\ ~args.non_negative) =>
              pc = "returned" /\ err = NoError

\* C4 witness: a call with non_negative set and an invalid nntype has ended
\* in the configuration error that names it.
C4_Witness ==
    /\ pc = "raised"
    /\ ~args.direct
    /\ args.svd_type = "symeig_svd"
    /\ args.non_negative
    /\ args.nntype = "other"
    /\ err = Exc("ValueError_nntype", "other", NNTYPES)

\* the matrix_reduced randomized_svd handed to truncated_svd
ReducedTaken == (SelectSeq(log, LAMBDA e : e.op = "svd"))[1].shape

\* the matrix_reduced of the path randomized_svd did not take
ReducedOther ==
    LET m == Max2(args.tensor[1], args.tensor[2])
        k == IF args.n_eigenvecs = None \/ args.n_eigenvecs > m
             THEN m ELSE args.n_eigenvecs
        n_dims == Min2(k + args.n_oversamples, m)
    IN  Reduce(args.tensor, n_dims, args.n_iter,
               ~Logged("transpose_input")).reduced

\* C8: the matrix_reduced of the path randomized_svd takes never has more
\* entries than the matrix_reduced of the other path.
C8_ReducedMinimal ==
    (StrategyRan /\ args.svd_type = "randomized_svd")
    => Cells(ReducedTaken) <= Cells(ReducedOther)

\* the Gram matrix symeig_svd handed to the symmetric eigensolver
GramTaken == (SelectSeq(log, LAMBDA e : e.op = "eigh"))[1].shape

\* C9 as stated: the matrix symeig_svd hands to the symmetric eigensolver
\* has side length min(rows, cols).
C9_Original ==
    (StrategyRan /\ args.svd_type = "symeig_svd")
    => LET n == Min2(args.tensor[1], args.tensor[2])
       IN  GramTaken = <<n, n>>

\* C9 amended: symeig_svd eigendecomposes the larger of the two Gram
\* matrices: the matrix handed to the symmetric eigensolver has side
\* length max(rows, cols).
C9_LargerGram ==
    (StrategyRan /\ args.svd_type = "symeig_svd")
    => LET n == Max2(args.tensor[1], args.tensor[2])
       IN  GramTaken = <<n, n>>

\* C9 witness: symeig_svd returned on a matrix with fewer rows than columns.
C9_Witness ==
    /\ pc = "returned"
    /\ args.svd_type = "symeig_svd"
    /\ args.tensor = <<2, 3>>
    /\ GramTaken = <<3, 3>>

====
